---- MODULE Spec2Model ----
(***************************************************************************)
(* Model of the webhook echo service (src/echo_service/main.py): the       *)
(* bounded in-memory store, the HTTP handlers that insert into and read    *)
(* from it under store_lock, and the MLflow signature verification         *)
(* helpers.                                                                *)
(*                                                                         *)
(* Text is modelled as a sequence of one-character tokens (a token is a    *)
(* TLA+ string; "U+00E9" stands for one non-ASCII character, "xFF" for one *)
(* byte that is not valid UTF-8, "U+FFFD" for the replacement character).  *)
(*                                                                         *)
(* Handlers are interleaved at statement granularity, which is a superset  *)
(* of the schedules the asyncio event loop produces (it switches only at   *)
(* an await that has to wait); SpecLoop has exactly the switch points of   *)
(* the event loop for POST /webhook.                                       *)
(***************************************************************************)
EXTENDS Integers, Sequences, FiniteSets, TLC

(***************************************************************************)
(* Bounds of the model.  The sizes the program fixes (deque maxlen 1000,   *)
(* per_page limits 1000 and 200, per_page defaults 100 and 25) are scaled  *)
(* down, keeping their order: default < limit <= maxlen.                   *)
(***************************************************************************)
\* deque(maxlen=1000), main.py:28, scaled
maxlen == 3
\* min(1000, per_page) in api_list, main.py:177, scaled
API_MAX_PER_PAGE == 3
\* min(200, per_page) in index, main.py:134, scaled
UI_MAX_PER_PAGE == 2
\* per_page: int = 100 in api_list, main.py:176, scaled
API_DEFAULT_PER_PAGE == 2
\* per_page: int = 25 in index, main.py:132, scaled
UI_DEFAULT_PER_PAGE == 1
\* number of POST /webhook requests a behaviour may start
MaxInserts == 5
\* the same, where the requests carry signature headers
MaxSignedInserts == 1
\* the same, where the payloads are of every kind
MaxIngests == 4

\* MAX_TIMESTAMP_AGE = 300, main.py:62
MAX_TIMESTAMP_AGE == 300

\* the handlers that may run at the same time
Procs == {1, 2}

Max(a, b) == IF a >= b THEN a ELSE b
Min(a, b) == IF a <= b THEN a ELSE b

(***************************************************************************)
(* Text helpers                                                            *)
(***************************************************************************)
NonAscii == "U+00E9"
InvalidByte == "xFF"
Replacement == "U+FFFD"

\* str.startswith
StartsWith(s, prefix) ==
    /\ Len(s) >= Len(prefix)
    /\ SubSeq(s, 1, Len(prefix)) = prefix

\* str.removeprefix
RemovePrefix(s, prefix) ==
    IF StartsWith(s, prefix) THEN SubSeq(s, Len(prefix) + 1, Len(s)) ELSE s

IsSpace(c) == c = " "
IsDigit(c) == c \in {"0", "1", "2", "3", "4", "5", "6", "7", "8", "9"}

DigitVal(c) ==
    CASE c = "0" -> 0 [] c = "1" -> 1 [] c = "2" -> 2 [] c = "3" -> 3
      [] c = "4" -> 4 [] c = "5" -> 5 [] c = "6" -> 6 [] c = "7" -> 7
      [] c = "8" -> 8 [] c = "9" -> 9

\* str.strip() as int() applies it: leading and trailing whitespace removed
RECURSIVE LStrip(_)
LStrip(s) == IF s # <<>> /\ IsSpace(Head(s)) THEN LStrip(Tail(s)) ELSE s

RECURSIVE RStrip(_)
RStrip(s) ==
    IF s # <<>> /\ IsSpace(s[Len(s)]) THEN RStrip(SubSeq(s, 1, Len(s) - 1)) ELSE s

Strip(s) == RStrip(LStrip(s))

\* the digits part of an int() literal: digits, single underscores between them
IsDigitsText(ds) ==
    /\ ds # <<>>
    /\ \A i \in 1..Len(ds) : IsDigit(ds[i]) \/ ds[i] = "_"
    /\ IsDigit(ds[1])
    /\ IsDigit(ds[Len(ds)])
    /\ \A i \in 1..(Len(ds) - 1) : ~(ds[i] = "_" /\ ds[i + 1] = "_")

RECURSIVE DigitsValue(_, _)
DigitsValue(ds, acc) ==
    IF ds = <<>> THEN acc
    ELSE IF Head(ds) = "_" THEN DigitsValue(Tail(ds), acc)
    ELSE DigitsValue(Tail(ds), 10 * acc + DigitVal(Head(ds)))

HasSign(s) == s # <<>> /\ Head(s) \in {"+", "-"}
Unsigned(s) == IF HasSign(s) THEN Tail(s) ELSE s

\* whether int(text) succeeds (no ValueError)
IntParses(text) == IsDigitsText(Unsigned(Strip(text)))

\* int(text), for a text that parses
IntValue(text) ==
    LET s == Strip(text)
        v == DigitsValue(Unsigned(s), 0)
    IN  IF HasSign(s) /\ Head(s) = "-" THEN 0 - v ELSE v

(***************************************************************************)
(* Python list slicing and the deque                                       *)
(***************************************************************************)
\* a slice that also takes the element at stop
PySliceInclusive(lst, start, stop) ==
    LET n == Len(lst)
        norm(i) == IF i < 0 THEN Max(i + n, 0) ELSE Min(i, n)
        lo == norm(start)
        hi == norm(stop + 1)
    IN  [k \in 1..Max(hi - lo, 0) |-> lst[lo + k]]

\* a slice that takes a negative index for 0 instead of counting from the end
PySliceFromZero(lst, start, stop) ==
    LET n == Len(lst)
        norm(i) == Min(Max(i, 0), n)
        lo == norm(start)
        hi == norm(stop)
    IN  [k \in 1..Max(hi - lo, 0) |-> lst[lo + k]]

\* lst[start:stop] with Python's treatment of negative and out-of-range indices
PySlice(lst, start, stop) ==
    LET n == Len(lst)
        norm(i) == IF i < 0 THEN Max(i + n, 0) ELSE Min(i, n)
        lo == norm(start)
        hi == norm(stop)
    IN  [k \in 1..Max(hi - lo, 0) |-> lst[lo + k]]

\* appendleft on a deque that was given no maxlen: nothing is ever dropped
appendleft_unbounded(d, x) == <<x>> \o d

\* append instead of appendleft: the new entry goes to the tail, the head is dropped
appendright(d, x) ==
    LET grown == d \o <<x>>
    IN  IF Len(grown) > maxlen THEN Tail(grown) ELSE grown

\* deque.appendleft on a deque(maxlen=maxlen)
appendleft(d, x) ==
    LET grown == <<x>> \o d
    IN  IF Len(grown) > maxlen THEN SubSeq(grown, 1, Len(grown) - 1) ELSE grown

(***************************************************************************)
(* State                                                                   *)
(***************************************************************************)
VARIABLES
    store,       \* the deque of entries, newest first (main.py:28)
    store_lock,  \* asyncio.Lock (main.py:29): 0 when free, else the holder
    h,           \* per handler: position, arguments, locals and response
    nextId,      \* the ids uuid4() has handed out so far are 1..nextId-1
    now,         \* the clock, in whole seconds
    log,         \* history: every appended entry, in the order of the appends
    probe,       \* inputs and result of a helper applied on its own
    sent         \* history: sent[i] is the payload POSTed for entry id i

vars == <<store, store_lock, h, nextId, now, log, probe, sent>>

(***************************************************************************)
(* Signature verification helpers (MLflow HMAC v1)                         *)
(***************************************************************************)
V1 == <<"v", "1", ",">>

\* one character of a digest's base64 text: always ASCII
AsciiToken(c) ==
    IF c = NonAscii THEN "=C3=A9" ELSE IF c = Replacement THEN "=EF=BF=BD" ELSE c

\* a keyed function that only depends on the length of msg
B64HmacOfLength(key, msg) ==
    LET t == key \o <<"|">> IN
    [i \in 1..(Len(t) + Len(msg)) |-> IF i <= Len(t) THEN AsciiToken(t[i]) ELSE "0"]

\* base64(HMAC-SHA256(key, msg)) as an ideal keyed function: an ASCII text that
\* determines key and msg (keys of the model hold no "|")
B64HmacSha256(key, msg) ==
    LET t == key \o <<"|">> \o msg IN [i \in 1..Len(t) |-> AsciiToken(t[i])]

\* hmac.compare_digest on two str: TypeError unless both are ASCII only
compare_digest(a, b) ==
    IF \E i \in 1..Len(a) : a[i] = NonAscii THEN "TypeError"
    ELSE IF \E i \in 1..Len(b) : b[i] = NonAscii THEN "TypeError"
    ELSE IF a = b THEN "True" ELSE "False"

\* the window's far end taken as outside it
verify_timestamp_freshness_strict(timestamp_str, max_age) ==
    IF ~IntParses(timestamp_str) THEN FALSE
    ELSE LET age == now - IntValue(timestamp_str)
         IN  0 <= age /\ age < max_age

verify_timestamp_freshness(timestamp_str, max_age) ==
    IF ~IntParses(timestamp_str) THEN FALSE
    ELSE LET webhook_timestamp == IntValue(timestamp_str)
             current_timestamp == now
             age == current_timestamp - webhook_timestamp
         IN  0 <= age /\ age <= max_age

\* "True", "False", or "TypeError" when compare_digest raises
verify_mlflow_signature(payload, signature, secret, delivery_id, timestamp) ==
    IF ~StartsWith(signature, V1) THEN "False"
    ELSE LET signature_b64 == RemovePrefix(signature, V1)
             signed_content == delivery_id \o <<".">> \o timestamp \o <<".">> \o payload
             expected_signature_b64 == B64HmacSha256(secret, signed_content)
         IN  compare_digest(signature_b64, expected_signature_b64)

(***************************************************************************)
(* Entry construction (receive_webhook, before the lock)                   *)
(***************************************************************************)
\* a decoding that drops what is not UTF-8
DecodeIgnore(raw) == SelectSeq(raw, LAMBDA b : b # InvalidByte)

\* bytes.decode(errors="replace")
Decode(raw) == [i \in 1..Len(raw) |-> IF raw[i] = InvalidByte THEN Replacement ELSE raw[i]]

\* json.loads on the subset of JSON the model sends: an integer, with optional
\* whitespace around it
JsonNumberText(s) ==
    LET u == IF s # <<>> /\ Head(s) = "-" THEN Tail(s) ELSE s
    IN  /\ u # <<>>
        /\ \A i \in 1..Len(u) : IsDigit(u[i])
        /\ (Len(u) > 1 => u[1] # "0")

JsonParses(raw) == JsonNumberText(Strip(raw))

\* a body kept as text whatever the payload
ParseBodyTextOnly(raw) == [kind |-> "text", num |-> 0, text |-> Decode(raw)]

ParseBody(raw) ==
    IF JsonParses(raw)
    THEN [kind |-> "json", num |-> IntValue(raw), text |-> <<>>]
    ELSE [kind |-> "text", num |-> 0, text |-> Decode(raw)]

WebhookEntry(id, received_at, headers, raw) ==
    [id |-> id, received_at |-> received_at, headers |-> headers,
     body |-> ParseBody(raw), raw_body |-> Decode(raw)]

NoHeaders == [n \in {} |-> <<>>]
\* None, as the value of `match` when no entry has the id
NoEntry == [id |-> 0, received_at |-> 0, headers |-> NoHeaders,
            body |-> [kind |-> "text", num |-> 0, text |-> <<>>], raw_body |-> <<>>]

\* dict.get(name): the value when present, else None, which tests false like ""
HeaderGet(headers, name) == IF name \in DOMAIN headers THEN headers[name] ELSE <<>>

\* a lookup that looks at the newest entry only
FindNewestOnly(d, entry_id) ==
    IF d # <<>> /\ Head(d).id = entry_id THEN Head(d) ELSE
    [id |-> 0, received_at |-> 0, headers |-> [n \in {} |-> <<>>],
     body |-> [kind |-> "text", num |-> 0, text |-> <<>>], raw_body |-> <<>>]

\* next((e for e in store if e.id == entry_id), None)
RECURSIVE FindById(_, _)
FindById(d, entry_id) ==
    IF d = <<>> THEN NoEntry
    ELSE IF Head(d).id = entry_id THEN Head(d)
    ELSE FindById(Tail(d), entry_id)

\* the UI's limit applied whatever the endpoint
ClampToUiLimit(limit, per_page) == Max(1, Min(UI_MAX_PER_PAGE, per_page))

\* max(1, min(limit, per_page))
ClampPerPage(limit, per_page) == Max(1, Min(limit, per_page))

\* pages counted from 0
SliceStartZeroBased(page, per_page) == page * per_page

\* start = (page - 1) * per_page
SliceStart(page, per_page) == (page - 1) * per_page

\* list(store)[start:end] with end = start + per_page
PageSlice(d, page, per_page) ==
    LET start == SliceStart(page, per_page)
        end == start + per_page
    IN  PySlice(d, start, end)

(***************************************************************************)
(* Handlers.  h[p].pc is "idle", "acquire" (at `async with store_lock`),   *)
(* "locked" (inside it), "locked2" (index, between its two statements),    *)
(* "body" (receive_webhook suspended in `await request.body()`) or "done"  *)
(* (the response is ready).                                                *)
(***************************************************************************)
Idle ==
    [pc |-> "idle", op |-> "none", entry_id |-> 0, page |-> 0, arg_per_page |-> 0,
     per_page |-> 0, secret |-> <<>>, entry |-> NoEntry, items |-> <<>>,
     total |-> 0, status |-> 0, detail |-> "", seen |-> 0, at |-> 0,
     held |-> FALSE]

Set(p, rec) == h' = [h EXCEPT ![p] = rec]

\* entering without waiting for the holder to leave
AcquireNoWait(p) ==
    /\ h[p].pc = "acquire"
    /\ store_lock' = p
    /\ h' = [h EXCEPT ![p] = [h[p] EXCEPT !.pc = "locked"]]
    /\ UNCHANGED <<store, nextId, now, log, probe, sent>>

\* async with store_lock: __aenter__
Acquire(p) ==
    /\ h[p].pc = "acquire"
    /\ store_lock = 0
    /\ store_lock' = p
    /\ Set(p, [h[p] EXCEPT !.pc = "locked"])
    /\ UNCHANGED <<store, nextId, now, log, probe, sent>>

\* the response has been sent; the handler's frame is gone
Return(p) ==
    /\ h[p].pc = "done"
    /\ Set(p, Idle)
    /\ UNCHANGED <<store, store_lock, nextId, now, log, probe, sent>>

\* POST /webhook, up to the lock: the entry is built
ReceiveBegin(p, raw, headers) ==
    /\ h[p].pc = "idle"
    /\ nextId <= MaxInserts
    /\ Set(p, [Idle EXCEPT !.pc = "acquire", !.op = "receive_webhook",
                           !.entry = WebhookEntry(nextId, now, headers, raw)])
    /\ nextId' = nextId + 1
    /\ sent' = Append(sent, raw)
    /\ UNCHANGED <<store, store_lock, now, log, probe>>

\* POST /webhook has been dispatched and is suspended in `await request.body()`
ReceiveAwaitBody(p) ==
    /\ h[p].pc = "idle"
    /\ nextId <= MaxInserts
    /\ Set(p, [Idle EXCEPT !.pc = "body", !.op = "receive_webhook", !.at = now])
    /\ UNCHANGED <<store, store_lock, nextId, now, log, probe, sent>>

\* the rest of the handler with the entry stamped with the time the request
\* was dispatched instead of the time the entry is built
ReceiveResumeStampedAtDispatch(p, raw, headers) ==
    /\ h[p].pc = "body"
    /\ store_lock = 0
    /\ LET entry == WebhookEntry(nextId, h[p].at, headers, raw)
       IN  /\ store' = appendleft(store, entry)
           /\ log' = Append(log, entry)
           /\ Set(p, [h[p] EXCEPT !.pc = "done", !.entry = entry, !.entry_id = entry.id,
                                  !.status = 200, !.seen = Len(log) + 1, !.held = TRUE])
    /\ nextId' = nextId + 1
    /\ sent' = Append(sent, raw)
    /\ UNCHANGED <<store_lock, now, probe>>

\* receive_webhook from the return of `await request.body()` to its response,
\* as the event loop runs it: the entry is built (id, received_at), the lock
\* is free, so `async with store_lock` enters without suspending, the entry
\* is appended and the lock is left.  No other handler runs in between: the
\* coroutine only gives up control at an await that has to wait.
ReceiveResume(p, raw, headers) ==
    /\ h[p].pc = "body"
    /\ store_lock = 0
    /\ LET entry == WebhookEntry(nextId, now, headers, raw)
       IN  /\ store' = appendleft(store, entry)
           /\ log' = Append(log, entry)
           /\ Set(p, [h[p] EXCEPT !.pc = "done", !.entry = entry, !.entry_id = entry.id,
                                  !.status = 200, !.seen = Len(log) + 1, !.held = TRUE])
    /\ nextId' = nextId + 1
    /\ sent' = Append(sent, raw)
    /\ UNCHANGED <<store_lock, now, probe>>

\* an insert that does not leave the lock
ReceiveInsertKeepLock(p) ==
    /\ h[p].pc = "locked"
    /\ h[p].op = "receive_webhook"
    /\ store' = appendleft(store, h[p].entry)
    /\ log' = Append(log, h[p].entry)
    /\ Set(p, [h[p] EXCEPT !.pc = "done", !.status = 200, !.entry_id = h[p].entry.id,
                           !.seen = Len(log) + 1, !.held = store_lock = p])
    /\ UNCHANGED <<store_lock, nextId, now, probe, sent>>

\* store.appendleft(entry), leaving the lock, the 200 response
ReceiveInsert(p) ==
    /\ h[p].pc = "locked"
    /\ h[p].op = "receive_webhook"
    /\ store' = appendleft(store, h[p].entry)
    /\ log' = Append(log, h[p].entry)
    /\ store_lock' = 0
    /\ Set(p, [h[p] EXCEPT !.pc = "done", !.status = 200, !.entry_id = h[p].entry.id,
                           !.seen = Len(log) + 1, !.held = store_lock = p])
    /\ UNCHANGED <<nextId, now, probe, sent>>

\* GET /, up to the lock
IndexBegin(p, page, per_page) ==
    /\ h[p].pc = "idle"
    /\ Set(p, [Idle EXCEPT !.pc = "acquire", !.op = "index", !.page = page,
                           !.arg_per_page = per_page,
                           !.per_page = ClampPerPage(UI_MAX_PER_PAGE, per_page)])
    /\ UNCHANGED <<store, store_lock, nextId, now, log, probe, sent>>

\* entries = list(store)[start:end]
IndexSlice(p) ==
    /\ h[p].pc = "locked"
    /\ h[p].op = "index"
    /\ Set(p, [h[p] EXCEPT !.pc = "locked2",
                           !.items = PageSlice(store, h[p].page, h[p].per_page),
                           !.seen = Len(log), !.held = store_lock = p])
    /\ UNCHANGED <<store, store_lock, nextId, now, log, probe, sent>>

\* total = len(store), leaving the lock, the 200 response
IndexTotal(p) ==
    /\ h[p].pc = "locked2"
    /\ store_lock' = 0
    /\ Set(p, [h[p] EXCEPT !.pc = "done", !.total = Len(store), !.status = 200,
                           !.held = h[p].held /\ store_lock = p])
    /\ UNCHANGED <<store, nextId, now, log, probe, sent>>

\* GET /api/webhooks, up to the lock
ApiListBegin(p, page, per_page) ==
    /\ h[p].pc = "idle"
    /\ Set(p, [Idle EXCEPT !.pc = "acquire", !.op = "api_list", !.page = page,
                           !.arg_per_page = per_page,
                           !.per_page = ClampPerPage(API_MAX_PER_PAGE, per_page)])
    /\ UNCHANGED <<store, store_lock, nextId, now, log, probe, sent>>

\* items = list(store)[start:end], leaving the lock, the 200 response
ApiListSlice(p) ==
    /\ h[p].pc = "locked"
    /\ h[p].op = "api_list"
    /\ Set(p, [h[p] EXCEPT !.pc = "done",
                           !.items = PageSlice(store, h[p].page, h[p].per_page),
                           !.status = 200, !.seen = Len(log),
                           !.held = store_lock = p])
    /\ store_lock' = 0
    /\ UNCHANGED <<store, nextId, now, log, probe, sent>>

\* GET /webhooks/{entry_id} (op "details") and GET /api/webhooks/{entry_id}
\* (op "api_get"), up to the lock
GetBegin(p, op, entry_id) ==
    /\ h[p].pc = "idle"
    /\ Set(p, [Idle EXCEPT !.pc = "acquire", !.op = op, !.entry_id = entry_id])
    /\ UNCHANGED <<store, store_lock, nextId, now, log, probe, sent>>

\* a lookup that takes the entry out of the store
GetLookupPop(p) ==
    /\ h[p].pc = "locked"
    /\ h[p].op \in {"details", "api_get"}
    /\ LET match == FindById(store, h[p].entry_id)
       IN  /\ Set(p, [h[p] EXCEPT !.pc = "done", !.entry = match,
                                  !.status = IF match.id = 0 THEN 404 ELSE 200,
                                  !.detail = IF match.id = 0 THEN "Webhook not found" ELSE "",
                                  !.seen = Len(log), !.held = store_lock = p])
           /\ store' = SelectSeq(store, LAMBDA e : e.id # match.id)
    /\ store_lock' = 0
    /\ UNCHANGED <<nextId, now, log, probe, sent>>

\* match = next(...), leaving the lock, 404 when there is no match, else 200
GetLookup(p) ==
    /\ h[p].pc = "locked"
    /\ h[p].op \in {"details", "api_get"}
    /\ LET match == FindById(store, h[p].entry_id)
       IN  Set(p, [h[p] EXCEPT !.pc = "done", !.entry = match,
                               !.status = IF match.id = 0 THEN 404 ELSE 200,
                               !.detail = IF match.id = 0 THEN "Webhook not found" ELSE "",
                               !.seen = Len(log), !.held = store_lock = p])
    /\ store_lock' = 0
    /\ UNCHANGED <<store, nextId, now, log, probe, sent>>

\* GET /health: len(store), read without the lock
Health(p) ==
    /\ h[p].pc = "idle"
    /\ Set(p, [Idle EXCEPT !.pc = "done", !.op = "health", !.total = Len(store),
                           !.status = 200, !.seen = Len(log),
                           !.held = store_lock = p])
    /\ UNCHANGED <<store, store_lock, nextId, now, log, probe, sent>>

\* GET /favicon.ico: an inline SVG, the store is not looked at
Favicon(p) ==
    /\ h[p].pc = "idle"
    /\ Set(p, [Idle EXCEPT !.pc = "done", !.op = "favicon", !.status = 200,
                           !.seen = Len(log), !.held = TRUE])
    /\ UNCHANGED <<store, store_lock, nextId, now, log, probe, sent>>

\* a verify that judges freshness by the time the entry was received
VerifyOutcomeAtReceive(match, secret) ==
    LET sig == HeaderGet(match.headers, "x-mlflow-signature")
        delivery_id == HeaderGet(match.headers, "x-mlflow-delivery-id")
        timestamp == HeaderGet(match.headers, "x-mlflow-timestamp")
        result == verify_mlflow_signature(match.raw_body, sig, secret, delivery_id, timestamp)
        age == match.received_at - IntValue(timestamp)
    IN  IF match.id = 0 THEN [status |-> 404, detail |-> "Webhook not found"]
        ELSE IF sig = <<>> THEN [status |-> 400, detail |-> "Missing signature header"]
        ELSE IF delivery_id = <<>> THEN [status |-> 400, detail |-> "Missing delivery id header"]
        ELSE IF timestamp = <<>> THEN [status |-> 400, detail |-> "Missing timestamp header"]
        ELSE IF ~(IntParses(timestamp) /\ 0 <= age /\ age <= MAX_TIMESTAMP_AGE)
             THEN [status |-> 400, detail |-> "Timestamp is too old or invalid"]
        ELSE IF result = "TypeError" THEN [status |-> 500, detail |-> "Internal Server Error"]
        ELSE IF result = "False" THEN [status |-> 401, detail |-> "Invalid signature"]
        ELSE [status |-> 200, detail |-> "verified"]

\* api_verify after the lookup: the checks in the order of the code, the first
\* failing one decides; an exception no handler catches becomes a 500
VerifyOutcome(match, secret) ==
    LET sig == HeaderGet(match.headers, "x-mlflow-signature")
        delivery_id == HeaderGet(match.headers, "x-mlflow-delivery-id")
        timestamp == HeaderGet(match.headers, "x-mlflow-timestamp")
        result == verify_mlflow_signature(match.raw_body, sig, secret, delivery_id, timestamp)
    IN  IF match.id = 0 THEN [status |-> 404, detail |-> "Webhook not found"]
        ELSE IF sig = <<>> THEN [status |-> 400, detail |-> "Missing signature header"]
        ELSE IF delivery_id = <<>> THEN [status |-> 400, detail |-> "Missing delivery id header"]
        ELSE IF timestamp = <<>> THEN [status |-> 400, detail |-> "Missing timestamp header"]
        ELSE IF ~verify_timestamp_freshness(timestamp, MAX_TIMESTAMP_AGE)
             THEN [status |-> 400, detail |-> "Timestamp is too old or invalid"]
        ELSE IF result = "TypeError" THEN [status |-> 500, detail |-> "Internal Server Error"]
        ELSE IF result = "False" THEN [status |-> 401, detail |-> "Invalid signature"]
        ELSE [status |-> 200, detail |-> "verified"]

\* POST /api/webhooks/{entry_id}/verify, up to the lock: 400 without a secret
VerifyBegin(p, entry_id, secret) ==
    /\ h[p].pc = "idle"
    /\ IF secret = <<>>
       THEN Set(p, [Idle EXCEPT !.pc = "done", !.op = "api_verify", !.entry_id = entry_id,
                                !.status = 400, !.detail = "Missing 'secret'",
                                !.held = TRUE])
       ELSE Set(p, [Idle EXCEPT !.pc = "acquire", !.op = "api_verify",
                                !.entry_id = entry_id, !.secret = secret])
    /\ UNCHANGED <<store, store_lock, nextId, now, log, probe, sent>>

\* a verify that takes the entry out of the store once it is verified
VerifyLookupConsume(p) ==
    /\ h[p].pc = "locked"
    /\ h[p].op = "api_verify"
    /\ LET match == FindById(store, h[p].entry_id)
           out == VerifyOutcome(match, h[p].secret)
       IN  /\ Set(p, [h[p] EXCEPT !.pc = "done", !.entry = match, !.status = out.status,
                                  !.detail = out.detail, !.seen = Len(log), !.at = now,
                                  !.held = store_lock = p])
           /\ store' = IF out.status = 200
                       THEN SelectSeq(store, LAMBDA e : e.id # match.id)
                       ELSE store
    /\ store_lock' = 0
    /\ UNCHANGED <<nextId, now, log, probe, sent>>

\* match = next(...), leaving the lock, then the checks and the response
VerifyLookup(p) ==
    /\ h[p].pc = "locked"
    /\ h[p].op = "api_verify"
    /\ LET match == FindById(store, h[p].entry_id)
           out == VerifyOutcome(match, h[p].secret)
       IN  Set(p, [h[p] EXCEPT !.pc = "done", !.entry = match, !.status = out.status,
                               !.detail = out.detail, !.seen = Len(log), !.at = now,
                               !.held = store_lock = p])
    /\ store_lock' = 0
    /\ UNCHANGED <<store, nextId, now, log, probe, sent>>

\* the instants the clock is sampled at
Instants == {0, 1, MAX_TIMESTAMP_AGE, MAX_TIMESTAMP_AGE + 1, MAX_TIMESTAMP_AGE + 2}

\* time passes: the clock never goes back
Tick(t) ==
    /\ t > now
    /\ now' = t
    /\ UNCHANGED <<store, store_lock, h, nextId, log, probe, sent>>

(***************************************************************************)
(* The service with concurrent handlers                                    *)
(***************************************************************************)
Headers(sig, delivery_id, timestamp) ==
    [n \in {"x-mlflow-signature", "x-mlflow-delivery-id", "x-mlflow-timestamp"} |->
        CASE n = "x-mlflow-signature" -> sig
          [] n = "x-mlflow-delivery-id" -> delivery_id
          [] n = "x-mlflow-timestamp" -> timestamp]

\* the header a sender holding `secret` computes
SignatureHeader(secret, delivery_id, timestamp, payload) ==
    V1 \o B64HmacSha256(secret, delivery_id \o <<".">> \o timestamp \o <<".">> \o payload)

NoProbe == [kind |-> "none"]

Init ==
    /\ store = <<>>
    /\ store_lock = 0
    /\ h = [p \in Procs |-> Idle]
    /\ nextId = 1
    /\ now = 0
    /\ log = <<>>
    /\ sent = <<>>
    /\ probe = NoProbe

\* requests of the concurrent service
ConcIds == {0, 1, 2}
ConcPages == {1, 2}

Next ==
    \/ \E p \in Procs : ReceiveBegin(p, <<"1">>, NoHeaders)
    \/ \E p \in Procs : ReceiveInsert(p)
    \/ \E p \in Procs : IndexBegin(p, 1, UI_DEFAULT_PER_PAGE)
    \/ \E p \in Procs : IndexSlice(p)
    \/ \E p \in Procs : IndexTotal(p)
    \/ \E p \in Procs, page \in ConcPages : ApiListBegin(p, page, API_DEFAULT_PER_PAGE)
    \/ \E p \in Procs : ApiListSlice(p)
    \/ \E p \in Procs, id \in ConcIds : GetBegin(p, "api_get", id)
    \/ \E p \in Procs : GetBegin(p, "details", 1)
    \/ \E p \in Procs : GetLookup(p)
    \/ \E p \in Procs : VerifyBegin(p, 1, <<"s">>)
    \/ \E p \in Procs : VerifyLookup(p)
    \/ \E p \in Procs : Health(p)
    \/ \E p \in Procs : Acquire(p)
    \/ \E p \in Procs : Return(p)

Spec == Init /\ [][Next]_vars

(***************************************************************************)
(* The service with one request at a time (no concurrent activity), and    *)
(* the whole range of arguments                                            *)
(***************************************************************************)
Payloads == {<<"1">>, <<"x">>}
Ids == 0..(MaxInserts + 1)
PageArgs == {-2, -1, 0, 1, 2, 3, 4}
PerPageArgs == {-1, 0, 1, 2, 3, 4, 5, 6}

NextSeq ==
    \/ \E raw \in Payloads : ReceiveBegin(1, raw, NoHeaders)
    \/ ReceiveInsert(1)
    \/ \E page \in PageArgs, per_page \in PerPageArgs : IndexBegin(1, page, per_page)
    \/ IndexSlice(1)
    \/ IndexTotal(1)
    \/ \E page \in PageArgs, per_page \in PerPageArgs : ApiListBegin(1, page, per_page)
    \/ ApiListSlice(1)
    \/ \E id \in Ids : GetBegin(1, "api_get", id)
    \/ \E id \in Ids : GetBegin(1, "details", id)
    \/ GetLookup(1)
    \/ Health(1)
    \/ Acquire(1)
    \/ Return(1)

SpecSeq == Init /\ [][NextSeq]_vars

(***************************************************************************)
(* Properties of the store                                                 *)
(***************************************************************************)
\* the store after the first k appends: the newest maxlen of them, newest first
Recent(k) == [i \in 1..Min(k, maxlen) |-> log[k - i + 1]]

Done(p, op) == h[p].pc = "done" /\ h[p].op = op

\* C1: the store never holds more than maxlen entries; after n completed
\* POST /webhook requests it holds exactly min(n, maxlen); GET /health reports
\* that number; an insert adds the new entry at the head and, only when the
\* store is full, drops exactly the tail entry.
C1_BoundedStore ==
    /\ [](/\ Len(store) <= maxlen
          /\ Len(store) = Min(Len(log), maxlen)
          /\ \A p \in Procs : Done(p, "health") => h[p].total = Min(h[p].seen, maxlen))
    /\ [][store' # store =>
            /\ Len(store') = Min(Len(store) + 1, maxlen)
            /\ Tail(store') = SubSeq(store, 1, Min(Len(store), maxlen - 1))]_vars

C1_Witness ==
    /\ Len(log) > maxlen
    /\ Len(store) = maxlen
    /\ \E p \in Procs : Done(p, "health") /\ h[p].total = maxlen /\ h[p].seen > maxlen

\* C2: with one request at a time, after more than maxlen inserts the size is
\* maxlen and the first page of maxlen entries of GET /api/webhooks is exactly the
\* last maxlen inserted entries, newest first, with no earlier entry in it.
C2_ListAfterOverflow ==
    \A p \in Procs :
        (Done(p, "api_list") /\ h[p].page = 1 /\ h[p].arg_per_page = maxlen
            /\ Len(log) > maxlen) =>
        /\ Len(store) = maxlen
        /\ h[p].items = [i \in 1..maxlen |-> log[Len(log) - i + 1]]
        /\ \A j \in 1..(Len(log) - maxlen), i \in 1..Len(h[p].items) :
                h[p].items[i].id # log[j].id

C2_Witness ==
    \E p \in Procs :
        /\ Done(p, "api_list") /\ h[p].page = 1 /\ h[p].arg_per_page = maxlen
        /\ Len(log) = maxlen + 2
        /\ Len(h[p].items) = maxlen

GetOps == {"api_get", "details"}

LogPos(e) == CHOOSE n \in 1..Len(log) : log[n].id = e.id

C4_NewestFirst ==
    /\ \A i, j \in DOMAIN store : i < j => LogPos(store[i]) > LogPos(store[j])
    /\ \A p \in Procs :
        (Done(p, "receive_webhook") /\ h[p].seen = Len(log)) =>
            store # <<>> /\ store[1].id = h[p].entry_id
    /\ \A p \in Procs :
        (Done(p, "api_list") /\ h[p].page = 1
            /\ h[p].arg_per_page = API_DEFAULT_PER_PAGE) =>
        \A n \in 1..h[p].seen :
            h[p].seen - n < API_DEFAULT_PER_PAGE =>
                \E i \in DOMAIN h[p].items : h[p].items[i] = log[n]

C4_Witness ==
    /\ Len(store) = maxlen
    /\ store[1].id < store[2].id
    /\ \E p \in Procs :
        /\ Done(p, "api_list") /\ h[p].seen > maxlen
        /\ Len(h[p].items) = API_DEFAULT_PER_PAGE

ListOps == {"api_list", "index"}

\* C9: every list or get result is what the operation returns on the store as it
\* is after a whole number of completed inserts (h[p].seen of them), never on a
\* store with an entry half added or with more than maxlen entries; the two
\* reads of GET / (entries, total) are of the same store; a result already taken
\* stays what it was while later inserts complete.
C9_AtomicInsert ==
    \A p \in Procs :
        /\ (h[p].op \in ListOps /\ h[p].pc \in {"locked2", "done"}) =>
            /\ h[p].seen \in 0..Len(log)
            /\ h[p].items = PageSlice(Recent(h[p].seen), h[p].page, h[p].per_page)
            /\ Len(h[p].items) <= maxlen
        /\ Done(p, "index") => h[p].total = Len(Recent(h[p].seen))
        /\ (h[p].pc = "done" /\ h[p].op \in GetOps) =>
            h[p].entry = FindById(Recent(h[p].seen), h[p].entry_id)

C9_Witness ==
    \E p, q \in Procs :
        /\ Done(p, "api_list") /\ h[p].items # <<>>
        /\ h[p].seen < Len(log)
        /\ h[p].items # PageSlice(store, h[p].page, h[p].per_page)
        /\ Done(q, "index") /\ h[q].seen = Len(log) /\ h[q].total = maxlen

PageLimit(op) == IF op = "index" THEN UI_MAX_PER_PAGE ELSE API_MAX_PER_PAGE

\* the pages first..last of d, one after the other
RECURSIVE PagesFrom(_, _, _, _)
PagesFrom(d, first, last, L) ==
    IF first > last THEN <<>>
    ELSE PageSlice(d, first, L) \o PagesFrom(d, first + 1, last, L)

\* C10: the effective limit L is per_page clamped to [1, 1000] for the API and to
\* [1, 200] for the UI; no response holds more than L entries; page >= 1 is the
\* store entries at positions (page-1)*L up to but excluding min(page*L, size);
\* pages 1, 2, 3, ... cover every stored entry exactly once.
C10_Pagination ==
    \A p \in Procs :
        (h[p].pc = "done" /\ h[p].op \in ListOps) =>
        LET L == h[p].per_page
            arg == h[p].arg_per_page
            limit == PageLimit(h[p].op)
            first == (h[p].page - 1) * L
            last == Min(h[p].page * L, Len(store))
        IN  /\ (arg < 1 => L = 1)
            /\ (arg > limit => L = limit)
            /\ (arg >= 1 /\ arg <= limit => L = arg)
            /\ Len(h[p].items) <= L
            /\ h[p].page >= 1 =>
                /\ Len(h[p].items) = Max(last - first, 0)
                /\ \A i \in 1..Len(h[p].items) : h[p].items[i] = store[first + i]
            /\ PagesFrom(store, 1, Len(store) + 1, L) = store

C10_Witness ==
    \E p \in Procs :
        /\ Done(p, "index") /\ h[p].arg_per_page > UI_MAX_PER_PAGE
        /\ h[p].page = 2 /\ Len(store) = maxlen /\ Len(h[p].items) = 1

(***************************************************************************)
(* Signed webhooks and their verification, one request at a time, with a   *)
(* clock that advances                                                      *)
(***************************************************************************)
SenderSecret == <<"s">>
Secrets == {<<>>, <<"s">>, <<"k">>}
SignedPayloads == {<<"1">>, <<" ", "1">>}
DeliveryIds == {<<"d">>, <<>>}
TimestampTexts == {<<"0">>, <<"1">>, <<"x">>, <<>>}
SigKinds == {"good", "other-secret", "over-body", "no-prefix", "non-ascii", "empty"}

\* the X-MLflow-Signature value a sender of each kind attaches
SenderSignature(kind, raw, delivery_id, timestamp) ==
    CASE kind = "good" -> SignatureHeader(SenderSecret, delivery_id, timestamp, raw)
      [] kind = "other-secret" -> SignatureHeader(<<"o">>, delivery_id, timestamp, raw)
      [] kind = "over-body" -> SignatureHeader(SenderSecret, delivery_id, timestamp, Strip(raw))
      [] kind = "no-prefix" ->
            B64HmacSha256(SenderSecret, delivery_id \o <<".">> \o timestamp \o <<".">> \o raw)
      [] kind = "non-ascii" -> V1 \o <<NonAscii>>
      [] kind = "empty" -> <<>>

Without(headers, name) == [n \in (DOMAIN headers) \ {name} |-> headers[n]]

SignedRequests ==
    {[raw |-> <<"1">>, headers |-> Headers(SenderSignature(k, <<"1">>, d, t), d, t)] :
        k \in SigKinds, d \in DeliveryIds, t \in TimestampTexts}
    \cup
    {[raw |-> raw, headers |-> Headers(SenderSignature(k, raw, <<"d">>, t), <<"d">>, t)] :
        raw \in SignedPayloads, k \in {"good", "over-body"}, t \in {<<"0">>, <<"1">>}}
    \cup
    {[raw |-> <<"1">>,
      headers |-> Without(Headers(SenderSignature("good", <<"1">>, <<"d">>, <<"0">>),
                                  <<"d">>, <<"0">>), name)] :
        name \in {"x-mlflow-signature", "x-mlflow-delivery-id", "x-mlflow-timestamp"}}

VerifyIds == 0..(MaxSignedInserts + 1)

NextVerify ==
    \/ /\ nextId <= MaxSignedInserts
       /\ \E r \in SignedRequests : ReceiveBegin(1, r.raw, r.headers)
    \/ ReceiveInsert(1)
    \/ \E id \in VerifyIds, secret \in Secrets : VerifyBegin(1, id, secret)
    \/ VerifyLookup(1)
    \/ Acquire(1)
    \/ Return(1)
    \/ \E t \in Instants : Tick(t)

SpecVerify == Init /\ [][NextVerify]_vars

\* C5: every verify ends in 200, 400, 401 or 404; 200 exactly when the secret is
\* non-empty, the id is stored, the entry has non-empty signature, delivery-id
\* and timestamp headers, the timestamp is fresh when verify runs and the
\* signature is the sender's for that secret; 401 only when all but the
\* signature comparison hold; 404 only for an id not stored; 400 only for a
\* missing secret, a missing header or a stale or unparseable timestamp.
C5_VerifyOutcomes ==
    \A p \in Procs :
        Done(p, "api_verify") =>
        LET e == h[p].entry
            sig == HeaderGet(e.headers, "x-mlflow-signature")
            d == HeaderGet(e.headers, "x-mlflow-delivery-id")
            t == HeaderGet(e.headers, "x-mlflow-timestamp")
            hasSecret == h[p].secret # <<>>
            found == e.id # 0
            hasHeaders == sig # <<>> /\ d # <<>> /\ t # <<>>
            fresh == /\ IntParses(t)
                     /\ h[p].at - IntValue(t) >= 0
                     /\ h[p].at - IntValue(t) <= MAX_TIMESTAMP_AGE
            matches == sig = SignatureHeader(h[p].secret, d, t, e.raw_body)
        IN  /\ h[p].status \in {200, 400, 401, 404}
            /\ h[p].status = 200 <=>
                (hasSecret /\ found /\ hasHeaders /\ fresh /\ matches)
            /\ h[p].status = 401 =>
                (hasSecret /\ found /\ hasHeaders /\ fresh /\ ~matches)
            /\ h[p].status = 404 => ~found
            /\ h[p].status = 400 => (~hasSecret \/ ~hasHeaders \/ ~fresh)

\* C8: at most one handler is inside a store critical section, it is the one the
\* lock names, and every handler that has touched the store did so holding the
\* lock.
C8_AllUnderLock ==
    /\ Cardinality({p \in Procs : h[p].pc \in {"locked", "locked2"}}) <= 1
    /\ \A p \in Procs : h[p].pc \in {"locked", "locked2"} => store_lock = p
    /\ \A p \in Procs : h[p].pc = "done" => h[p].held

(***************************************************************************)
(* verify_timestamp_freshness on its own: a text written for an integer t  *)
(* in one of several forms, checked at a sampled instant                   *)
(***************************************************************************)
DigitChars == <<"0", "1", "2", "3", "4", "5", "6", "7", "8", "9">>

\* str(n) for n >= 0
RECURSIVE Digits(_)
Digits(n) ==
    IF n < 10 THEN <<DigitChars[n + 1]>>
    ELSE Digits(n \div 10) \o <<DigitChars[(n % 10) + 1]>>

Sign(t) == IF t < 0 THEN <<"-">> ELSE <<>>
Abs(t) == IF t < 0 THEN 0 - t ELSE t

\* forms int() accepts for t
ValidForms == {"plain", "spaces", "plus", "zeros", "underscore"}
\* forms int() rejects with ValueError
InvalidForms == {"empty", "letters", "suffix", "float", "trailing-underscore",
                 "double-underscore", "sign-space", "double-sign", "inner-space"}

Written(form, t) ==
    LET ds == Digits(Abs(t))
    IN  CASE form = "plain" -> Sign(t) \o ds
          [] form = "spaces" -> <<" ">> \o Sign(t) \o ds \o <<" ", " ">>
          [] form = "plus" -> (IF t < 0 THEN <<"-">> ELSE <<"+">>) \o ds
          [] form = "zeros" -> Sign(t) \o <<"0", "0">> \o ds
          [] form = "underscore" -> Sign(t) \o <<"0", "_">> \o ds
          [] form = "empty" -> <<>>
          [] form = "letters" -> <<"x">>
          [] form = "suffix" -> Sign(t) \o ds \o <<"x">>
          [] form = "float" -> Sign(t) \o ds \o <<".", "0">>
          [] form = "trailing-underscore" -> Sign(t) \o ds \o <<"_">>
          [] form = "double-underscore" -> Sign(t) \o <<"0", "_", "_">> \o ds
          [] form = "sign-space" -> <<"-", " ">> \o ds
          [] form = "double-sign" -> <<"-">> \o Sign(t) \o <<"-">> \o ds
          [] form = "inner-space" -> Sign(t) \o <<"1", " ">> \o ds

FreshTimes ==
    {-1, 0, 1, 2, MAX_TIMESTAMP_AGE - 1, MAX_TIMESTAMP_AGE, MAX_TIMESTAMP_AGE + 1,
     MAX_TIMESTAMP_AGE + 2, MAX_TIMESTAMP_AGE + 3, 2 * MAX_TIMESTAMP_AGE + 2}

InitFresh ==
    /\ store = <<>>
    /\ store_lock = 0
    /\ h = [p \in Procs |-> Idle]
    /\ nextId = 1
    /\ now = 0
    /\ log = <<>>
    /\ sent = <<>>
    /\ \E t \in FreshTimes, form \in ValidForms \cup InvalidForms :
            probe = [kind |-> "freshness", t |-> t, form |-> form,
                     text |-> Written(form, t), result |-> "none", at |-> 0]

ApplyFreshness ==
    /\ probe.kind = "freshness"
    /\ probe.result = "none"
    /\ probe' = [probe EXCEPT
                    !.result = IF verify_timestamp_freshness(probe.text, MAX_TIMESTAMP_AGE)
                               THEN "True" ELSE "False",
                    !.at = now]
    /\ UNCHANGED <<store, store_lock, h, nextId, now, log, sent>>

NextFresh ==
    \/ ApplyFreshness
    \/ \E t \in Instants : Tick(t)

SpecFresh == InitFresh /\ [][NextFresh]_vars

\* C6: the freshness check answers true exactly when the text is an integer t
\* with 0 <= now - t <= MAX_TIMESTAMP_AGE: now - 300 is fresh, now - 301 and
\* now + 1 are not, and a text that is no integer gives false.
C6_Freshness ==
    probe.result # "none" =>
        LET age == probe.at - probe.t
            fresh == probe.form \in ValidForms /\ 0 <= age /\ age <= MAX_TIMESTAMP_AGE
        IN  /\ probe.result = (IF fresh THEN "True" ELSE "False")
            /\ (probe.form = "plain" /\ probe.t = probe.at - MAX_TIMESTAMP_AGE)
                    => probe.result = "True"
            /\ (probe.form = "plain" /\ probe.t = probe.at - MAX_TIMESTAMP_AGE - 1)
                    => probe.result = "False"
            /\ (probe.form = "plain" /\ probe.t = probe.at + 1) => probe.result = "False"
            /\ probe.form \in InvalidForms => probe.result = "False"

C6_Witness ==
    /\ probe.result = "True"
    /\ probe.form = "spaces"
    /\ probe.t = 1
    /\ probe.at = MAX_TIMESTAMP_AGE + 1

(***************************************************************************)
(* verify_mlflow_signature on its own: a sender signs (delivery id,         *)
(* timestamp, payload) with its secret; one byte of one input may then     *)
(* change, or the header may lose its prefix, before the check             *)
(***************************************************************************)
SigSecrets == {<<"s">>, <<"k", "s">>}
SigDeliveryIds == {<<"d">>, <<"d", "e">>}
SigTimestamps == {<<"0">>, <<"1", "0">>}
SigPayloads == {<<"1">>, <<" ", "1">>, <<"x">>}
\* the values a changed byte may take
Bytes == {"a", "1", "0", " ", "v", ",", ".", "|", NonAscii}
SigFields == {"signature", "payload", "delivery_id", "timestamp"}

InitSig ==
    /\ store = <<>>
    /\ store_lock = 0
    /\ h = [p \in Procs |-> Idle]
    /\ nextId = 1
    /\ now = 0
    /\ log = <<>>
    /\ sent = <<>>
    /\ \E secret \in SigSecrets, d \in SigDeliveryIds, t \in SigTimestamps,
          payload \in SigPayloads :
            probe = [kind |-> "signature", payload |-> payload,
                     signature |-> SignatureHeader(secret, d, t, payload),
                     secret |-> secret, delivery_id |-> d, timestamp |-> t,
                     changed |-> "none", result |-> "none"]

\* one byte of one input takes another value
ChangeByte(field, i, b) ==
    /\ probe.kind = "signature"
    /\ probe.changed = "none"
    /\ probe.result = "none"
    /\ i \in 1..Len(probe[field])
    /\ b # probe[field][i]
    /\ probe' = [probe EXCEPT ![field] = [probe[field] EXCEPT ![i] = b],
                              !.changed = field]
    /\ UNCHANGED <<store, store_lock, h, nextId, now, log, sent>>

\* the header arrives without its "v1," prefix
DropPrefix ==
    /\ probe.kind = "signature"
    /\ probe.changed = "none"
    /\ probe.result = "none"
    /\ probe' = [probe EXCEPT !.signature = RemovePrefix(probe.signature, V1),
                              !.changed = "prefix"]
    /\ UNCHANGED <<store, store_lock, h, nextId, now, log, sent>>

ApplySignature ==
    /\ probe.kind = "signature"
    /\ probe.result = "none"
    /\ probe' = [probe EXCEPT
                    !.result = verify_mlflow_signature(probe.payload, probe.signature,
                                    probe.secret, probe.delivery_id, probe.timestamp)]
    /\ UNCHANGED <<store, store_lock, h, nextId, now, log, sent>>

NextSig ==
    \/ \E field \in SigFields, i \in 1..16, b \in Bytes : ChangeByte(field, i, b)
    \/ DropPrefix
    \/ ApplySignature

SpecSig == InitSig /\ [][NextSig]_vars

\* C7: verify accepts the header "v1," + base64(HMAC-SHA256(s, d.T.p)), returns
\* false for every header that does not start with "v1,", and returns false once
\* any one byte of the signature, the payload, the delivery id or the timestamp
\* has changed.
C7_SignatureVerification ==
    (probe.kind = "signature" /\ probe.result # "none") =>
        /\ probe.changed = "none" => probe.result = "True"
        /\ ~StartsWith(probe.signature, V1) => probe.result = "False"
        /\ probe.changed # "none" => probe.result = "False"


(***************************************************************************)
(* Ingest and read-back: one handler, every kind of payload                *)
(***************************************************************************)
\* valid JSON (with and without surrounding whitespace), invalid JSON, text
\* with a byte that is not UTF-8, the empty payload
IngestPayloads ==
    {<<"1">>, <<" ", "1">>, <<"0", "1">>, <<"x">>, <<"x", InvalidByte>>, <<>>}

IngestIds == 0..(MaxIngests + 1)

NextIngest ==
    \/ \E raw \in IngestPayloads : nextId <= MaxIngests /\ ReceiveBegin(1, raw, NoHeaders)
    \/ ReceiveInsert(1)
    \/ IndexBegin(1, 1, UI_DEFAULT_PER_PAGE)
    \/ IndexSlice(1)
    \/ IndexTotal(1)
    \/ ApiListBegin(1, 1, API_DEFAULT_PER_PAGE)
    \/ ApiListSlice(1)
    \/ \E op \in {"api_get", "details"}, id \in IngestIds : GetBegin(1, op, id)
    \/ GetLookup(1)
    \/ \E id \in IngestIds : VerifyBegin(1, id, <<"s">>)
    \/ VerifyLookup(1)
    \/ Health(1)
    \/ Acquire(1)
    \/ Return(1)

SpecIngest == Init /\ [][NextIngest]_vars

\* C11: POST /webhook answers 200 with a fresh id whatever the payload; the
\* entry with that id is the one appended by this request, it is at the front
\* of the store when the insert has just happened, its body is the parsed
\* JSON value when the payload is valid JSON and the decoded text otherwise;
\* a receive_webhook handler never ends in another status.
C11_IngestNeverFails ==
    \A p \in Procs :
        h[p].op = "receive_webhook" =>
            /\ h[p].status \in {0, 200}
            /\ h[p].pc = "done" =>
                LET e == log[h[p].seen]
                    raw == sent[e.id]
                IN  /\ h[p].status = 200
                    /\ e.id = h[p].entry_id
                    /\ \A i \in 1..Len(log) : i # h[p].seen => log[i].id # e.id
                    /\ h[p].seen = Len(log) => Head(store) = e
                    /\ IF JsonParses(raw)
                       THEN e.body.kind = "json" /\ e.body.num = IntValue(raw)
                       ELSE e.body.kind = "text" /\ e.body.text = Decode(raw)

\* a payload that is not UTF-8 has been ingested after a JSON one and answered
C11_Witness ==
    /\ Done(1, "receive_webhook")
    /\ h[1].status = 200
    /\ Len(store) = 2
    /\ sent[Head(store).id] = <<"x", InvalidByte>>
    /\ Head(store).body.text = <<"x", Replacement>>
    /\ store[2].body.kind = "json"


\* the payload is text: every byte of it decodes
IsUtf8(raw) == \A i \in 1..Len(raw) : raw[i] # InvalidByte

ReadOps == {"index", "details", "api_list", "api_get"}

\* C13: two reads of the same kind with the same arguments (page, per_page,
\* id), taken with the same number of inserts completed, answer the same:
\* status, entry, entries, total and detail are identical.
C13_ReadsIdempotent ==
    \A p, q \in Procs :
        /\ h[p].pc = "done" /\ h[q].pc = "done"
        /\ h[p].op \in ReadOps /\ h[q].op = h[p].op
        /\ h[q].entry_id = h[p].entry_id
        /\ h[q].page = h[p].page /\ h[q].arg_per_page = h[p].arg_per_page
        /\ h[q].seen = h[p].seen
        => /\ h[q].status = h[p].status
           /\ h[q].entry = h[p].entry
           /\ h[q].items = h[p].items
           /\ h[q].total = h[p].total
           /\ h[q].detail = h[p].detail

\* the same get has been answered twice, the entry found both times
C13_Witness ==
    /\ Done(1, "api_get") /\ Done(2, "api_get")
    /\ h[1].entry_id = 1 /\ h[2].entry_id = 1
    /\ h[1].seen = 2 /\ h[2].seen = 2
    /\ h[1].status = 200 /\ h[2].entry.id = 1


(***************************************************************************)
(* Every endpoint, one handler, signed and unsigned entries, a clock       *)
(***************************************************************************)
\* an entry signed by the sender, one signed with another secret, one
\* without headers
FrameRequests ==
    {[raw |-> <<"1">>, headers |-> Headers(SenderSignature(k, <<"1">>, <<"d">>, <<"0">>),
                                           <<"d">>, <<"0">>)] :
        k \in {"good", "other-secret"}}
    \cup {[raw |-> <<"1">>, headers |-> NoHeaders]}

FrameSecrets == {<<>>, SenderSecret}

NextFrame ==
    \/ \E r \in FrameRequests : nextId <= MaxIngests /\ ReceiveBegin(1, r.raw, r.headers)
    \/ ReceiveInsert(1)
    \/ IndexBegin(1, 1, UI_DEFAULT_PER_PAGE)
    \/ IndexSlice(1)
    \/ IndexTotal(1)
    \/ ApiListBegin(1, 1, API_DEFAULT_PER_PAGE)
    \/ ApiListSlice(1)
    \/ \E op \in {"api_get", "details"}, id \in IngestIds : GetBegin(1, op, id)
    \/ GetLookup(1)
    \/ \E id \in IngestIds, secret \in FrameSecrets : VerifyBegin(1, id, secret)
    \/ VerifyLookup(1)
    \/ Health(1)
    \/ Favicon(1)
    \/ Acquire(1)
    \/ Return(1)
    \/ Tick(MAX_TIMESTAMP_AGE + 1)

SpecFrame == Init /\ [][NextFrame]_vars

\* C14: a step that changes the store is the appendleft of a receive_webhook
\* handler: the new store is that handler's entry followed by the old store,
\* whole when it held fewer than maxlen entries and without its last entry
\* when it was full.  No other step (index, details, api_list, api_get,
\* api_verify with any outcome, health, favicon, the clock) changes the
\* store's content or order.
C14_OnlyInsertMutates ==
    [][store' # store =>
        \E p \in Procs :
            /\ h[p].op = "receive_webhook" /\ h[p].pc = "locked" /\ h'[p].pc = "done"
            /\ store' # <<>>
            /\ Head(store') = h[p].entry
            /\ Tail(store') = IF Len(store) < maxlen THEN store
                              ELSE SubSeq(store, 1, maxlen - 1)]_vars

\* a verify has answered 200 on a full store that has already lost an entry
C14_Witness ==
    /\ Done(1, "api_verify")
    /\ h[1].status = 200
    /\ Len(store) = maxlen
    /\ Len(log) > maxlen


(***************************************************************************)
(* Concurrent POST /webhook handlers on the event loop, with a clock.      *)
(* Handlers are coroutines of one event loop: a handler runs until it      *)
(* awaits something that is not ready.  receive_webhook awaits the request *)
(* body; after that its only await is `async with store_lock`, and the     *)
(* lock is free whenever a handler is resumed, because no handler awaits   *)
(* inside an `async with store_lock` block.                                *)
(***************************************************************************)
NextLoop ==
    \/ \E p \in Procs : ReceiveAwaitBody(p)
    \/ \E p \in Procs : ReceiveResume(p, <<"1">>, NoHeaders)
    \/ \E p \in Procs : Return(p)
    \/ \E t \in Instants : Tick(t)

SpecLoop == Init /\ [][NextLoop]_vars

\* C15: with a clock that never goes back and POST /webhook handlers resumed
\* in any order, received_at never increases along the store: an entry at a
\* smaller index (inserted later) has received_at >= that of every entry at
\* a larger index, and the entries are in the order of their inserts.
C15_ReceivedAtMonotone ==
    /\ \A i, j \in 1..Len(store) :
           i < j => store[i].received_at >= store[j].received_at
    /\ \A i, j \in 1..Len(log) :
           i < j => log[i].received_at <= log[j].received_at

\* the handler dispatched first was resumed last, after the clock had moved:
\* its entry is the newest and carries the later time
C15_Witness ==
    /\ Done(1, "receive_webhook") /\ Done(2, "receive_webhook")
    /\ h[1].at < h[2].at
    /\ h[1].seen = 2 /\ h[2].seen = 1
    /\ store[1].received_at > store[2].received_at


(***************************************************************************)
(* Progress.  The event loop runs every handler that is ready: a handler   *)
(* inside `async with store_lock` goes on to the end of the block (weak     *)
(* fairness), and a handler waiting for the lock is woken when the lock is *)
(* released, waiters first come first served (strong fairness of Acquire). *)
(* Whether a new request arrives is left open.                             *)
(***************************************************************************)
InLock(p) ==
    \/ ReceiveInsert(p)
    \/ IndexSlice(p)
    \/ IndexTotal(p)
    \/ ApiListSlice(p)
    \/ GetLookup(p)
    \/ VerifyLookup(p)

SpecLive ==
    /\ Init
    /\ [][Next]_vars
    /\ \A p \in Procs : WF_vars(InLock(p)) /\ SF_vars(Acquire(p))

\* C16: a handler waiting for the lock gets it; a handler holding the lock
\* leaves it; a request that has started gets its response; and in no
\* reachable state is the lock held by a handler that cannot go on (whoever
\* holds it is inside the block, on its way out).
C16_NoBlocking ==
    /\ \A p \in Procs : (h[p].pc = "acquire") ~> (store_lock = p)
    /\ \A p \in Procs : (store_lock = p) ~> (store_lock # p)
    /\ \A p \in Procs : (h[p].pc \in {"acquire", "locked", "locked2"}) ~> (h[p].pc = "done")
    /\ [](store_lock # 0 => h[store_lock].pc \in {"locked", "locked2"})
    /\ [](\A p \in Procs : h[p].pc \in {"locked", "locked2"} => store_lock = p)

\* one handler waits while the other is inside the block
C16_Witness ==
    /\ h[1].pc = "acquire"
    /\ store_lock = 2
    /\ h[2].pc = "locked"


(***************************************************************************)
(* The order of the checks of api_verify                                   *)
(***************************************************************************)
\* the answer the first failing check gives, the checks taken in the order
\* secret, id, signature header, delivery-id header, timestamp header,
\* freshness at the time of the verify, signature
FirstFailure(p) ==
    LET e == h[p].entry
        sig == HeaderGet(e.headers, "x-mlflow-signature")
        d == HeaderGet(e.headers, "x-mlflow-delivery-id")
        t == HeaderGet(e.headers, "x-mlflow-timestamp")
        fresh == /\ IntParses(t)
                 /\ h[p].at - IntValue(t) >= 0
                 /\ h[p].at - IntValue(t) <= MAX_TIMESTAMP_AGE
    IN  IF h[p].secret = <<>> THEN [status |-> 400, detail |-> "Missing 'secret'"]
        ELSE IF e.id = 0 THEN [status |-> 404, detail |-> "Webhook not found"]
        ELSE IF sig = <<>> THEN [status |-> 400, detail |-> "Missing signature header"]
        ELSE IF d = <<>> THEN [status |-> 400, detail |-> "Missing delivery id header"]
        ELSE IF t = <<>> THEN [status |-> 400, detail |-> "Missing timestamp header"]
        ELSE IF ~fresh THEN [status |-> 400, detail |-> "Timestamp is too old or invalid"]
        ELSE IF sig # SignatureHeader(h[p].secret, d, t, e.raw_body)
             THEN [status |-> 401, detail |-> "Invalid signature"]
        ELSE [status |-> 200, detail |-> "verified"]

\* C17: every verify answers with the status and detail of the first check
\* that fails, in the order missing secret (400), unknown id (404), missing
\* signature header, missing delivery-id header, missing timestamp header,
\* stale or unparseable timestamp (400 each), signature mismatch (401), and
\* with 200 when none fails.
C17_VerifyOrder ==
    \A p \in Procs :
        Done(p, "api_verify") =>
            /\ h[p].status = FirstFailure(p).status
            /\ h[p].detail = FirstFailure(p).detail


(***************************************************************************)
(* Pages below 1                                                           *)
(***************************************************************************)
\* C18 as stated: a list request with page < 1 returns no entries.
C18_PageBelowOneEmpty ==
    \A p \in Procs :
        (h[p].pc = "done" /\ h[p].op \in ListOps /\ h[p].page < 1) => h[p].items = <<>>

\* C18: a list request with page = 0 returns no entries; one with a negative
\* page returns the entries at the positions (page-1)*L up to but excluding
\* page*L counted back from the end of the store (both clipped at the front),
\* which is not empty when the store holds more than -page*L entries; it
\* never returns more than L entries.
C18_PageBelowOne ==
    \A p \in Procs :
        (h[p].pc = "done" /\ h[p].op \in ListOps /\ h[p].page < 1) =>
        LET L == h[p].per_page
            n == Len(store)
            lo == Max(n + (h[p].page - 1) * L, 0)
            hi == Max(n + h[p].page * L, 0)
        IN  /\ h[p].page = 0 => h[p].items = <<>>
            /\ h[p].page < 0 =>
                /\ h[p].items = SubSeq(store, lo + 1, hi)
                /\ (n > (0 - h[p].page) * L <=> h[p].items # <<>>)
            /\ Len(h[p].items) <= L

\* GET /api/webhooks?page=-1&per_page=1 on a full store has answered with an
\* entry: the one before the oldest
C18_Witness ==
    /\ Done(1, "api_list")
    /\ h[1].page = -1
    /\ h[1].per_page = 1
    /\ Len(store) = maxlen
    /\ h[1].items = <<store[maxlen - 1]>>


(***************************************************************************)
(* Freshness is judged when verify runs                                    *)
(***************************************************************************)
\* C19: a verify with a non-empty secret of a stored entry whose timestamp
\* header is the integer t, run when the clock is past t + MAX_TIMESTAMP_AGE,
\* answers 400, whenever the entry was received and whatever was answered
\* before; and a verify with the sender's secret of an entry the sender
\* signed, run when the clock is in [t, t + MAX_TIMESTAMP_AGE], answers 200,
\* also when t was still in the future when the entry was received.
C19_FreshnessAtVerifyTime ==
    \A p \in Procs :
        (Done(p, "api_verify") /\ h[p].secret # <<>> /\ h[p].entry.id # 0) =>
        LET e == h[p].entry
            sig == HeaderGet(e.headers, "x-mlflow-signature")
            d == HeaderGet(e.headers, "x-mlflow-delivery-id")
            ts == HeaderGet(e.headers, "x-mlflow-timestamp")
            t == IntValue(ts)
        IN  IntParses(ts) =>
              /\ h[p].at > t + MAX_TIMESTAMP_AGE => h[p].status = 400
              /\ ( /\ h[p].at >= t /\ h[p].at <= t + MAX_TIMESTAMP_AGE
                   /\ d # <<>>
                   /\ sig = SignatureHeader(h[p].secret, d, ts, e.raw_body) )
                 => h[p].status = 200

\* an entry received at time 0 with timestamp 1, verified 200 at time 1
C19_Witness ==
    /\ Done(1, "api_verify")
    /\ h[1].status = 200
    /\ h[1].entry.received_at = 0
    /\ HeaderGet(h[1].entry.headers, "x-mlflow-timestamp") = <<"1">>
    /\ h[1].at = 1


(***************************************************************************)
(* verify_mlflow_signature on its own: a header the sender computed for    *)
(* one (delivery id, timestamp, payload) is presented with another         *)
(***************************************************************************)
\* components of different lengths, with and without the "." separator
BindDeliveryIds == {<<"a">>, <<"a", "b">>, <<"a", ".", "b">>}
BindTimestamps == {<<"c">>, <<"b">>, <<"b", ".", "c">>, <<"1">>}
BindPayloads == {<<"x">>, <<"c", ".", "x">>, <<>>}

InitBind ==
    /\ store = <<>>
    /\ store_lock = 0
    /\ h = [p \in Procs |-> Idle]
    /\ nextId = 1
    /\ now = 0
    /\ log = <<>>
    /\ sent = <<>>
    /\ \E d \in BindDeliveryIds, t \in BindTimestamps, payload \in BindPayloads :
            probe = [kind |-> "binding", secret |-> SenderSecret,
                     signature |-> SignatureHeader(SenderSecret, d, t, payload),
                     signed |-> [delivery_id |-> d, timestamp |-> t, payload |-> payload],
                     accepted |-> "none",
                     delivery_id |-> <<>>, timestamp |-> <<>>, payload |-> <<>>,
                     result |-> "none"]

\* the header is checked with the triple it was computed for
VerifySigned ==
    /\ probe.kind = "binding"
    /\ probe.accepted = "none"
    /\ probe' = [probe EXCEPT
                    !.accepted = verify_mlflow_signature(probe.signed.payload, probe.signature,
                                    probe.secret, probe.signed.delivery_id,
                                    probe.signed.timestamp)]
    /\ UNCHANGED <<store, store_lock, h, nextId, now, log, sent>>

\* the same header and secret are checked with a triple (d, t, payload)
VerifyPresented(d, t, payload) ==
    /\ probe.kind = "binding"
    /\ probe.accepted = "True"
    /\ probe.result = "none"
    /\ probe' = [probe EXCEPT
                    !.delivery_id = d, !.timestamp = t, !.payload = payload,
                    !.result = verify_mlflow_signature(payload, probe.signature,
                                    probe.secret, d, t)]
    /\ UNCHANGED <<store, store_lock, h, nextId, now, log, sent>>

NextBind ==
    \/ VerifySigned
    \/ \E d \in BindDeliveryIds, t \in BindTimestamps, payload \in BindPayloads :
            VerifyPresented(d, t, payload)

SpecBind == InitBind /\ [][NextBind]_vars

Presented == [delivery_id |-> probe.delivery_id, timestamp |-> probe.timestamp,
              payload |-> probe.payload]

HasDot(s) == \E i \in 1..Len(s) : s[i] = "."

\* C20 as stated: a header accepted for one triple is rejected for every
\* triple that differs from it in any component.
C20_BindsTriple ==
    (probe.kind = "binding" /\ probe.result # "none" /\ Presented # probe.signed)
        => probe.result = "False"

\* C20: a header accepted for (d, T, p) under a secret is accepted with that
\* secret for exactly the triples (d', T', p') whose dot-joined text
\* d'.T'.p' is the same as d.T.p, and rejected for all others; so it is
\* rejected for every differing triple when the delivery ids and timestamps
\* hold no ".", while two different triples that join to the same text are
\* both accepted.
C20_BindsSignedText ==
    (probe.kind = "binding" /\ probe.result # "none") =>
        LET a == probe.signed
            b == Presented
            joined(x) == x.delivery_id \o <<".">> \o x.timestamp \o <<".">> \o x.payload
        IN  /\ probe.accepted = "True"
            /\ probe.result \in {"True", "False"}
            /\ probe.result = "True" <=> joined(b) = joined(a)
            /\ ( /\ b # a
                 /\ ~HasDot(a.delivery_id) /\ ~HasDot(a.timestamp)
                 /\ ~HasDot(b.delivery_id) /\ ~HasDot(b.timestamp) )
               => probe.result = "False"

\* the header computed for ("a.b", "c", "x") has been accepted for
\* ("a", "b.c", "x")
C20_Witness ==
    /\ probe.kind = "binding"
    /\ probe.signed = [delivery_id |-> <<"a", ".", "b">>, timestamp |-> <<"c">>,
                       payload |-> <<"x">>]
    /\ Presented = [delivery_id |-> <<"a">>, timestamp |-> <<"b", ".", "c">>,
                    payload |-> <<"x">>]
    /\ probe.result = "True"

====
